---- MODULE Spec2Model ----
(***************************************************************************)
(* Runtime styles of owo-colors (src/src/dyn_styles.rs): the Style builder *)
(* and the rendering of Styled<T> into one ANSI SGR escape sequence.       *)
(*                                                                         *)
(* Text is modelled byte by byte: a string is a sequence of one-character  *)
(* strings, and the byte 0x1b is the element "ESC".                        *)
(***************************************************************************)
EXTENDS Integers, Sequences, FiniteSets, TLC

VARIABLES
    style,   \* the Style the caller's builder chain has produced so far
    twin,    \* SpecOrder: the Style of a second chain making the same two
             \* calls in the opposite order
    calls,   \* SpecOrder: the two calls, in the order the first chain made them
    styled,  \* the Styled wrapper, once style.style(target) has made it
    out,     \* the formatter fmt has written to
    pc       \* "build", "styled", "done"; SpecOrder: "paired"

vars == <<style, twin, calls, styled, out, pc>>

\* ------------------------------------------------------------------ bounds

\* Longest list handed to effects() / remove_effects().
MaxLen == 2

\* The sink handed to fmt accepts between 0 and MaxRoom write_str calls
\* before it fails (SpecSample only).
MaxRoom == 36

\* ------------------------------------------------------------- data model

\* enum Effect, in declaration order.
Effect ==
    <<"Bold", "Dimmed", "Italic", "Underline", "Blink", "BlinkFast",
      "Reversed", "Hidden", "Strikethrough">>

\* The nine bool fields of struct Style, in declaration order.
EffectFields ==
    <<"bold", "dimmed", "italic", "underline", "blink", "blink_fast",
      "reversed", "hidden", "strikethrough">>

Range(s) == {s[i] : i \in 1..Len(s)}

\* Option<DynColors>: None, Some(Ansi(name)), Some(Rgb(r, g, b)).
None == [tag |-> "None"]

Ansi(name) == [tag |-> "Ansi", name |-> name]

Rgb(r, g, b) == [tag |-> "Rgb", r |-> r, g |-> g, b |-> b]

\* enum AnsiColors with its SGR foreground code; the background code is the
\* foreground code plus 10.
AnsiCode ==
    [Black |-> 30, Red |-> 31, Green |-> 32, Yellow |-> 33, Blue |-> 34,
     Magenta |-> 35, Cyan |-> 36, White |-> 37, Default |-> 39,
     BrightBlack |-> 90, BrightRed |-> 91, BrightGreen |-> 92,
     BrightYellow |-> 93, BrightBlue |-> 94, BrightMagenta |-> 95,
     BrightCyan |-> 96, BrightWhite |-> 97]

\* #[derive(Default)] struct Style
StyleDefault ==
    [fg |-> None, bg |-> None,
     bold |-> FALSE, dimmed |-> FALSE, italic |-> FALSE, underline |-> FALSE,
     blink |-> FALSE, blink_fast |-> FALSE, reversed |-> FALSE,
     hidden |-> FALSE, strikethrough |-> FALSE]

\* ---------------------------------------------------------------- inputs

\* Named colors the callers pass.
AnsiSample == {"Black", "Blue", "White", "Default", "BrightWhite"}

\* RGB triples the callers pass: one, two and three digit channels.
RgbSample == {<<255, 255, 255>>, <<0, 42, 7>>}

\* Effects the callers put in the lists of effects() / remove_effects().
ListSample == {"Bold", "Underline", "Strikethrough"}

RECURSIVE SeqsUpTo(_, _)
SeqsUpTo(S, n) ==
    IF n = 0 THEN {<<>>}
    ELSE LET shorter == SeqsUpTo(S, n - 1)
         IN  shorter \cup {Append(l, x) : l \in shorter, x \in S}

EffectLists == SeqsUpTo(ListSample, MaxLen)

\* Values of a type implementing DynColor (AnsiColors, Rgb) as passed to
\* color() / on_color().
DynColorInputs ==
    {[ty |-> "AnsiColors", name |-> n] : n \in AnsiSample}
        \cup {[ty |-> "Rgb", rgb |-> t] : t \in RgbSample}

\* Marker types implementing Color (colors::White, colors::CustomColor<R, G, B>)
\* as named in fg::<C>() / bg::<C>().
ColorInputs ==
    {[ty |-> "colors", name |-> n] : n \in AnsiSample}
        \cup {[ty |-> "CustomColor", rgb |-> t] : t \in RgbSample}

\* Texts the wrapped values display as; the second holds the bytes the
\* escape sequence itself is made of.
Texts == {<<"T", "E", "S", "T">>, <<"1", ";", "m">>}

\* A wrapped value: its text, and whether its own formatter fails.
Targets == [text : Texts, fails : BOOLEAN]

\* ------------------------------------------------------ Style (the builder)

\* Style::new
new == StyleDefault

\* The rows of the color_methods! invocation: color, fg method, bg method.
\* purple and bright_purple are second names of Magenta and BrightMagenta.
ColorMethodRows ==
    {<<"Black", "black", "on_black">>, <<"Red", "red", "on_red">>,
     <<"Green", "green", "on_green">>, <<"Yellow", "yellow", "on_yellow">>,
     <<"Blue", "blue", "on_blue">>, <<"Magenta", "magenta", "on_magenta">>,
     <<"Magenta", "purple", "on_purple">>, <<"Cyan", "cyan", "on_cyan">>,
     <<"White", "white", "on_white">>,
     <<"Default", "default_color", "on_default_color">>,
     <<"BrightBlack", "bright_black", "on_bright_black">>,
     <<"BrightRed", "bright_red", "on_bright_red">>,
     <<"BrightGreen", "bright_green", "on_bright_green">>,
     <<"BrightYellow", "bright_yellow", "on_bright_yellow">>,
     <<"BrightBlue", "bright_blue", "on_bright_blue">>,
     <<"BrightMagenta", "bright_magenta", "on_bright_magenta">>,
     <<"BrightMagenta", "bright_purple", "on_bright_purple">>,
     <<"BrightCyan", "bright_cyan", "on_bright_cyan">>,
     <<"BrightWhite", "bright_white", "on_bright_white">>}

\* The rows whose methods the callers use.
RowSample == {row \in ColorMethodRows : row[1] \in AnsiSample}

\* color_methods!: $fg_method
fg_method(self, row) == [self EXCEPT !.fg = Ansi(row[1])]

\* Mutant of bg_method: the macro's second method assigns self.fg too.
bg_method_writes_fg(self, row) == [self EXCEPT !.fg = Ansi(row[1])]

\* color_methods!: $bg_method
bg_method(self, row) == [self EXCEPT !.bg = Ansi(row[1])]

\* Color::into_dyncolors of a marker type
into_dyncolors(C) ==
    IF C.ty = "colors" THEN Ansi(C.name)
    ELSE Rgb(C.rgb[1], C.rgb[2], C.rgb[3])

\* DynColor::get_dyncolors_fg of AnsiColors and of Rgb
get_dyncolors_fg(c) ==
    IF c.ty = "AnsiColors" THEN Ansi(c.name)
    ELSE Rgb(c.rgb[1], c.rgb[2], c.rgb[3])

\* DynColor::get_dyncolors_bg of AnsiColors and of Rgb
get_dyncolors_bg(c) ==
    IF c.ty = "AnsiColors" THEN Ansi(c.name)
    ELSE Rgb(c.rgb[1], c.rgb[2], c.rgb[3])

\* Style::fg::<C>
fg(self, C) == [self EXCEPT !.fg = into_dyncolors(C)]

\* Style::bg::<C>
bg(self, C) == [self EXCEPT !.bg = into_dyncolors(C)]

\* Mutant of remove_fg: the slot is set to the terminal default.
remove_fg_default(self) == [self EXCEPT !.fg = Ansi("Default")]

\* Style::remove_fg
remove_fg(self) == [self EXCEPT !.fg = None]

\* Style::remove_bg
remove_bg(self) == [self EXCEPT !.bg = None]

\* Mutant of style_method: setting one effect clears the others.
style_method_exclusive(self, name) ==
    [[f \in DOMAIN self |->
        IF f \in {"fg", "bg"} THEN self[f] ELSE FALSE] EXCEPT ![name] = TRUE]

\* style_methods!: $name, one method per bool field
style_method(self, name) == [self EXCEPT ![name] = TRUE]

\* Mutant of set_effect: the Underline arm assigns italic.
set_effect_slip(self, e, to) ==
    CASE e = "Bold" -> [self EXCEPT !.bold = to]
      [] e = "Dimmed" -> [self EXCEPT !.dimmed = to]
      [] e = "Italic" -> [self EXCEPT !.italic = to]
      [] e = "Underline" -> [self EXCEPT !.italic = to]
      [] e = "Blink" -> [self EXCEPT !.blink = to]
      [] e = "BlinkFast" -> [self EXCEPT !.blink_fast = to]
      [] e = "Reversed" -> [self EXCEPT !.reversed = to]
      [] e = "Hidden" -> [self EXCEPT !.hidden = to]
      [] e = "Strikethrough" -> [self EXCEPT !.strikethrough = to]

\* Style::set_effect
set_effect(self, effect, to) ==
    CASE effect = "Bold" -> [self EXCEPT !.bold = to]
      [] effect = "Dimmed" -> [self EXCEPT !.dimmed = to]
      [] effect = "Italic" -> [self EXCEPT !.italic = to]
      [] effect = "Underline" -> [self EXCEPT !.underline = to]
      [] effect = "Blink" -> [self EXCEPT !.blink = to]
      [] effect = "BlinkFast" -> [self EXCEPT !.blink_fast = to]
      [] effect = "Reversed" -> [self EXCEPT !.reversed = to]
      [] effect = "Hidden" -> [self EXCEPT !.hidden = to]
      [] effect = "Strikethrough" -> [self EXCEPT !.strikethrough = to]

\* Style::set_effects: the for loop over the slice, front to back.
RECURSIVE set_effects(_, _, _)
set_effects(self, effects_, to) ==
    IF effects_ = <<>> THEN self
    ELSE set_effects(set_effect(self, Head(effects_), to), Tail(effects_), to)

\* Style::effect
effect(self, e) == set_effect(self, e, TRUE)

\* Style::remove_effect
remove_effect(self, e) == set_effect(self, e, FALSE)

\* Style::effects
effects(self, l) == set_effects(self, l, TRUE)

\* Style::remove_effects
remove_effects(self, l) == set_effects(self, l, FALSE)

\* Style::remove_all_effects
remove_all_effects(self) ==
    [self EXCEPT !.bold = FALSE, !.dimmed = FALSE, !.italic = FALSE,
                 !.underline = FALSE, !.blink = FALSE, !.blink_fast = FALSE,
                 !.reversed = FALSE, !.hidden = FALSE,
                 !.strikethrough = FALSE]

\* Style::color
color(self, c) == [self EXCEPT !.fg = get_dyncolors_fg(c)]

\* Style::on_color
on_color(self, c) == [self EXCEPT !.bg = get_dyncolors_bg(c)]

\* Style::fg_rgb::<R, G, B>
fg_rgb(self, R, G, B) == [self EXCEPT !.fg = Rgb(R, G, B)]

\* Style::bg_rgb::<R, G, B>
bg_rgb(self, R, G, B) == [self EXCEPT !.bg = Rgb(R, G, B)]

\* Style::truecolor
truecolor(self, r, g, b) == [self EXCEPT !.fg = Rgb(r, g, b)]

\* Style::on_truecolor
on_truecolor(self, r, g, b) == [self EXCEPT !.bg = Rgb(r, g, b)]

\* Style::style: the wrapper holds the target and a copy of the style.
style_(self, target) == [target |-> target, style |-> self]

\* ------------------------------------------------------------ the renderer

\* A fmt::Formatter over a sink: the bytes written so far, the number of
\* write_str calls made, the number of calls the sink still accepts (when
\* limited) and the fmt::Result so far. Once res is "Err" the function that
\* was writing has returned through `?`: nothing after it runs.
Formatter(limited, room) ==
    [buf |-> <<>>, n |-> 0, limited |-> limited, room |-> room, res |-> "Ok"]

\* Mutant of write_str: the Result of an earlier write is dropped, the
\* writes after a failure are made all the same.
write_str_swallow(f, s) ==
    IF f.limited /\ f.room = 0 THEN [f EXCEPT !.res = "Err"]
    ELSE [f EXCEPT !.buf = @ \o s, !.n = @ + 1,
                   !.room = IF f.limited THEN @ - 1 ELSE @]

\* f.write_str(s)?
write_str(f, s) ==
    IF f.res = "Err" THEN f
    ELSE IF f.limited /\ f.room = 0 THEN [f EXCEPT !.res = "Err"]
    ELSE [f EXCEPT !.buf = @ \o s, !.n = @ + 1,
                   !.room = IF f.limited THEN @ - 1 ELSE @]

\* <T as $trait>::fmt(&self.target, f)?: the value writes its own text, or
\* fails by itself.
T_fmt(target, f) ==
    IF f.res = "Err" THEN f
    ELSE IF target.fails THEN [f EXCEPT !.res = "Err"]
    ELSE write_str(f, target.text)

Digit(d) == <<"0", "1", "2", "3", "4", "5", "6", "7", "8", "9">>[d + 1]

\* Display of an integer: its decimal digits, no leading zero.
RECURSIVE Dec(_)
Dec(x) ==
    IF x < 10 THEN <<Digit(x)>> ELSE Dec(x \div 10) \o <<Digit(x % 10)>>

\* write!(f, "{};{};{}", r, g, b) after the prefix: five writes.
write_rgb(f, r, g, b) ==
    LET f1 == write_str(f, Dec(r))
        f2 == write_str(f1, <<";">>)
        f3 == write_str(f2, Dec(g))
        f4 == write_str(f3, <<";">>)
    IN  write_str(f4, Dec(b))

\* DynColors::fmt_raw_ansi_fg
fmt_raw_ansi_fg(c, f) ==
    IF c.tag = "Ansi" THEN write_str(f, Dec(AnsiCode[c.name]))
    ELSE write_rgb(write_str(f, <<"3", "8", ";", "2", ";">>), c.r, c.g, c.b)

\* DynColors::fmt_raw_ansi_bg
fmt_raw_ansi_bg(c, f) ==
    IF c.tag = "Ansi" THEN write_str(f, Dec(AnsiCode[c.name] + 10))
    ELSE write_rgb(write_str(f, <<"4", "8", ";", "2", ";">>), c.r, c.g, c.b)

\* Mutant of EffectValues: strikethrough is emitted before underline.
EffectValues_swapped ==
    <<<<"bold", "1">>, <<"dimmed", "2">>, <<"italic", "3">>,
      <<"strikethrough", "9">>, <<"blink", "5">>, <<"blink_fast", "6">>,
      <<"reversed", "7">>, <<"hidden", "8">>, <<"underline", "4">>>>

\* The (attr, value) pairs of the text_effect_fmt! invocation, in order.
EffectValues ==
    <<<<"bold", "1">>, <<"dimmed", "2">>, <<"italic", "3">>,
      <<"underline", "4">>, <<"blink", "5">>, <<"blink_fast", "6">>,
      <<"reversed", "7">>, <<"hidden", "8">>, <<"strikethrough", "9">>>>

\* text_effect_fmt!: one expansion of the repeated `if $style.$attr` block,
\* over the formatter and the `semicolon` flag.
text_effect_if(s, st, pair) ==
    IF s[pair[1]]
    THEN [f |-> write_str(IF st.semicolon THEN write_str(st.f, <<";">>)
                          ELSE st.f,
                          <<pair[2]>>),
          semicolon |-> TRUE]
    ELSE st

\* text_effect_fmt!: the blocks for pairs[i..], one after the other.
RECURSIVE text_effect_fmt(_, _, _, _)
text_effect_fmt(s, st, pairs, i) ==
    IF i > Len(pairs) THEN st
    ELSE text_effect_fmt(s, text_effect_if(s, st, pairs[i]), pairs, i + 1)

\* fmt: format_effect
format_effect(s) ==
    s.bold \/ s.dimmed \/ s.italic \/ s.underline \/ s.blink
        \/ s.blink_fast \/ s.reversed \/ s.hidden \/ s.strikethrough

\* fmt: format_color
format_color(s) == s.fg # None \/ s.bg # None

\* fmt: format_any
format_any(s) == format_color(s) \/ format_effect(s)

\* fmt: if format_any { f.write_str("\x1b[")?; }
fmt_intro(s, f) ==
    IF format_any(s) THEN write_str(f, <<"ESC", "[">>) ELSE f

\* fmt: if let Some(fg) = s.fg { ...; semicolon = true; }
fmt_fg(s, st) ==
    IF s.fg # None
    THEN [f |-> fmt_raw_ansi_fg(s.fg, st.f), semicolon |-> TRUE]
    ELSE st

\* Mutant of fmt_bg: the separator is written whether or not fg is set.
fmt_bg_always_separator(s, st) ==
    IF s.bg # None
    THEN [st EXCEPT !.f = fmt_raw_ansi_bg(s.bg, write_str(st.f, <<";">>))]
    ELSE st

\* fmt: if let Some(bg) = s.bg { if s.fg.is_some() { ";" } ... }
\* `semicolon` is not assigned here.
fmt_bg(s, st) ==
    IF s.bg # None
    THEN [st EXCEPT !.f = fmt_raw_ansi_bg(s.bg,
                              IF s.fg # None THEN write_str(st.f, <<";">>)
                              ELSE st.f)]
    ELSE st

\* Mutant of fmt_m: the `m` is written whether or not anything is active.
fmt_m_always(s, f) == write_str(f, <<"m">>)

\* fmt: if format_any { f.write_str("m")?; }
fmt_m(s, f) == IF format_any(s) THEN write_str(f, <<"m">>) ELSE f

\* Mutant of fmt_reset: the reset is written for colors only.
fmt_reset_color_only(s, f) ==
    IF format_color(s) THEN write_str(f, <<"ESC", "[", "0", "m">>) ELSE f

\* fmt: if format_any { f.write_str("\x1b[0m")?; }
fmt_reset(s, f) ==
    IF format_any(s) THEN write_str(f, <<"ESC", "[", "0", "m">>) ELSE f

\* impl_fmt!: <Styled<T> as $trait>::fmt, the same body for every trait.
fmt(self, f) ==
    LET s == self.style
        st0 == [f |-> fmt_intro(s, f), semicolon |-> FALSE]
        st1 == fmt_fg(s, st0)
        st2 == fmt_bg(s, st1)
        st3 == text_effect_fmt(s, st2, EffectValues, 1)
        f4 == fmt_m(s, st3.f)
        f5 == T_fmt(self.target, f4)
    IN  fmt_reset(s, f5)

\* ------------------------------------------------------- the state machine

\* No Styled wrapper exists / nothing has been formatted.
NoStyled == [tag |-> "None"]

NoOutput == Formatter(FALSE, 0)

Init ==
    /\ style = new
    /\ twin = new
    /\ calls = <<>>
    /\ styled = NoStyled
    /\ out = NoOutput
    /\ pc = "build"

\* The builder calls: each replaces the chain's Style by its result.
New ==
    /\ pc = "build"
    /\ style' = new
    /\ UNCHANGED <<twin, calls, styled, out, pc>>

FgMethod(row) ==
    /\ pc = "build"
    /\ style' = fg_method(style, row)
    /\ UNCHANGED <<twin, calls, styled, out, pc>>

BgMethod(row) ==
    /\ pc = "build"
    /\ style' = bg_method(style, row)
    /\ UNCHANGED <<twin, calls, styled, out, pc>>

Fg(C) ==
    /\ pc = "build"
    /\ style' = fg(style, C)
    /\ UNCHANGED <<twin, calls, styled, out, pc>>

Bg(C) ==
    /\ pc = "build"
    /\ style' = bg(style, C)
    /\ UNCHANGED <<twin, calls, styled, out, pc>>

RemoveFg ==
    /\ pc = "build"
    /\ style' = remove_fg(style)
    /\ UNCHANGED <<twin, calls, styled, out, pc>>

RemoveBg ==
    /\ pc = "build"
    /\ style' = remove_bg(style)
    /\ UNCHANGED <<twin, calls, styled, out, pc>>

StyleMethod(name) ==
    /\ pc = "build"
    /\ style' = style_method(style, name)
    /\ UNCHANGED <<twin, calls, styled, out, pc>>

EffectCall(e) ==
    /\ pc = "build"
    /\ style' = effect(style, e)
    /\ UNCHANGED <<twin, calls, styled, out, pc>>

RemoveEffect(e) ==
    /\ pc = "build"
    /\ style' = remove_effect(style, e)
    /\ UNCHANGED <<twin, calls, styled, out, pc>>

Effects(l) ==
    /\ pc = "build"
    /\ style' = effects(style, l)
    /\ UNCHANGED <<twin, calls, styled, out, pc>>

RemoveEffects(l) ==
    /\ pc = "build"
    /\ style' = remove_effects(style, l)
    /\ UNCHANGED <<twin, calls, styled, out, pc>>

RemoveAllEffects ==
    /\ pc = "build"
    /\ style' = remove_all_effects(style)
    /\ UNCHANGED <<twin, calls, styled, out, pc>>

ColorCall(c) ==
    /\ pc = "build"
    /\ style' = color(style, c)
    /\ UNCHANGED <<twin, calls, styled, out, pc>>

OnColor(c) ==
    /\ pc = "build"
    /\ style' = on_color(style, c)
    /\ UNCHANGED <<twin, calls, styled, out, pc>>

FgRgb(t) ==
    /\ pc = "build"
    /\ style' = fg_rgb(style, t[1], t[2], t[3])
    /\ UNCHANGED <<twin, calls, styled, out, pc>>

BgRgb(t) ==
    /\ pc = "build"
    /\ style' = bg_rgb(style, t[1], t[2], t[3])
    /\ UNCHANGED <<twin, calls, styled, out, pc>>

Truecolor(t) ==
    /\ pc = "build"
    /\ style' = truecolor(style, t[1], t[2], t[3])
    /\ UNCHANGED <<twin, calls, styled, out, pc>>

OnTruecolor(t) ==
    /\ pc = "build"
    /\ style' = on_truecolor(style, t[1], t[2], t[3])
    /\ UNCHANGED <<twin, calls, styled, out, pc>>

\* style.style(target)
StyleCall(target) ==
    /\ pc = "build"
    /\ styled' = style_(style, target)
    /\ pc' = "styled"
    /\ UNCHANGED <<style, twin, calls, out>>

\* format!("{}", &styled) and the like: fmt over a fresh formatter.
Fmt(limited, room) ==
    /\ pc = "styled"
    /\ out' = fmt(styled, Formatter(limited, room))
    /\ pc' = "done"
    /\ UNCHANGED <<style, twin, calls, styled>>

\* The wrapper and the formatted text go out of scope; the Style, which is
\* Copy, is still the caller's.
Drop ==
    /\ pc = "done"
    /\ styled' = NoStyled
    /\ out' = NoOutput
    /\ pc' = "build"
    /\ UNCHANGED <<style, twin, calls>>

Mutate ==
    \/ New
    \/ \E row \in RowSample : FgMethod(row)
    \/ \E row \in RowSample : BgMethod(row)
    \/ \E C \in ColorInputs : Fg(C)
    \/ \E C \in ColorInputs : Bg(C)
    \/ RemoveFg
    \/ RemoveBg
    \/ \E i \in 1..Len(EffectFields) : StyleMethod(EffectFields[i])
    \/ \E i \in 1..Len(Effect) : EffectCall(Effect[i])
    \/ \E i \in 1..Len(Effect) : RemoveEffect(Effect[i])
    \/ \E l \in EffectLists : Effects(l)
    \/ \E l \in EffectLists : RemoveEffects(l)
    \/ RemoveAllEffects
    \/ \E c \in DynColorInputs : ColorCall(c)
    \/ \E c \in DynColorInputs : OnColor(c)
    \/ \E t \in RgbSample : FgRgb(t)
    \/ \E t \in RgbSample : BgRgb(t)
    \/ \E t \in RgbSample : Truecolor(t)
    \/ \E t \in RgbSample : OnTruecolor(t)

\* Every builder call, and rendering into a sink that never fails of a
\* value whose formatter never fails.
Next ==
    \/ Mutate
    \/ \E target \in {x \in Targets : ~x.fails} : StyleCall(target)
    \/ Fmt(FALSE, 0)
    \/ Drop

Spec == Init /\ [][Next]_vars

\* Styles the failing renders are tried on: every pair of colors, with no
\* effect, one, two (first and last, neighbours) or all nine.
SampleColors ==
    {None} \cup {Ansi(n) : n \in AnsiSample}
           \cup {Rgb(t[1], t[2], t[3]) : t \in RgbSample}

SampleStyles ==
    {[[effects(new, l) EXCEPT !.fg = a] EXCEPT !.bg = b] :
        a \in SampleColors, b \in SampleColors,
        l \in {<<>>, <<"Bold">>, <<"Underline", "Strikethrough">>,
               <<"Dimmed", "Italic">>, <<"Hidden">>, Effect}}

InitSample ==
    /\ style \in SampleStyles
    /\ twin = new
    /\ calls = <<>>
    /\ styled = NoStyled
    /\ out = NoOutput
    /\ pc = "build"

\* Rendering of any value into any sink: one that fails at its first,
\* second, ... write_str call, or never.
NextSample ==
    \/ \E target \in Targets : StyleCall(target)
    \/ \E room \in 0..MaxRoom : Fmt(TRUE, room)
    \/ Fmt(FALSE, 0)
    \/ Drop

SpecSample == InitSample /\ [][NextSample]_vars

\* A builder call as a value: the method and its argument.
Call(op, arg) == [op |-> op, arg |-> arg]

\* Every call of a method that takes self and returns Self, over the inputs
\* the callers pass.
Calls ==
    {Call("fg_method", row) : row \in RowSample}
        \cup {Call("bg_method", row) : row \in RowSample}
        \cup {Call("fg", C) : C \in ColorInputs}
        \cup {Call("bg", C) : C \in ColorInputs}
        \cup {Call("remove_fg", <<>>), Call("remove_bg", <<>>),
               Call("remove_all_effects", <<>>)}
        \cup {Call("style_method", n) : n \in Range(EffectFields)}
        \cup {Call("effect", e) : e \in Range(Effect)}
        \cup {Call("remove_effect", e) : e \in Range(Effect)}
        \cup {Call("effects", l) : l \in EffectLists}
        \cup {Call("remove_effects", l) : l \in EffectLists}
        \cup {Call("color", c) : c \in DynColorInputs}
        \cup {Call("on_color", c) : c \in DynColorInputs}
        \cup {Call("fg_rgb", t) : t \in RgbSample}
        \cup {Call("bg_rgb", t) : t \in RgbSample}
        \cup {Call("truecolor", t) : t \in RgbSample}
        \cup {Call("on_truecolor", t) : t \in RgbSample}

\* self.<op>(<arg>)
Apply(m, self) ==
    CASE m.op = "fg_method" -> fg_method(self, m.arg)
      [] m.op = "bg_method" -> bg_method(self, m.arg)
      [] m.op = "fg" -> fg(self, m.arg)
      [] m.op = "bg" -> bg(self, m.arg)
      [] m.op = "remove_fg" -> remove_fg(self)
      [] m.op = "remove_bg" -> remove_bg(self)
      [] m.op = "remove_all_effects" -> remove_all_effects(self)
      [] m.op = "style_method" -> style_method(self, m.arg)
      [] m.op = "effect" -> effect(self, m.arg)
      [] m.op = "remove_effect" -> remove_effect(self, m.arg)
      [] m.op = "effects" -> effects(self, m.arg)
      [] m.op = "remove_effects" -> remove_effects(self, m.arg)
      [] m.op = "color" -> color(self, m.arg)
      [] m.op = "on_color" -> on_color(self, m.arg)
      [] m.op = "fg_rgb" -> fg_rgb(self, m.arg[1], m.arg[2], m.arg[3])
      [] m.op = "bg_rgb" -> bg_rgb(self, m.arg[1], m.arg[2], m.arg[3])
      [] m.op = "truecolor" -> truecolor(self, m.arg[1], m.arg[2], m.arg[3])
      [] m.op = "on_truecolor" ->
            on_truecolor(self, m.arg[1], m.arg[2], m.arg[3])

\* Styles the pairs of calls start from: the default, one with a color in
\* each slot and a few effects, one with everything set.
OrderStyles ==
    {new,
     effects(on_truecolor(fg_method(new, <<"White", "white", "on_white">>),
                          0, 42, 7),
             <<"Bold", "Blink", "Strikethrough">>),
     effects(bg_method(truecolor(new, 255, 255, 255),
                       <<"Default", "default_color", "on_default_color">>),
             Effect)}

InitOrder ==
    /\ style \in OrderStyles
    /\ twin = style
    /\ calls = <<>>
    /\ styled = NoStyled
    /\ out = NoOutput
    /\ pc = "build"

\* s.m1().m2() in one chain and s.m2().m1() in the other.
Pair(m1, m2) ==
    /\ pc = "build"
    /\ style' = Apply(m2, Apply(m1, style))
    /\ twin' = Apply(m1, Apply(m2, twin))
    /\ calls' = <<m1, m2>>
    /\ pc' = "paired"
    /\ UNCHANGED <<styled, out>>

NextOrder ==
    /\ pc = "build"
    /\ \E m1 \in Calls, m2 \in Calls : Pair(m1, m2)

SpecOrder == InitOrder /\ [][NextOrder]_vars

\* =================================================================== claims

\* ------------------------------------------------ reading the written bytes

IsPrefix(a, b) == Len(a) <= Len(b) /\ SubSeq(b, 1, Len(a)) = a

IsSuffix(a, b) ==
    Len(a) <= Len(b) /\ SubSeq(b, Len(b) - Len(a) + 1, Len(b)) = a

Count(b, ch) == Cardinality({i \in 1..Len(b) : b[i] = ch})

RECURSIVE Flatten(_)
Flatten(ss) == IF ss = <<>> THEN <<>> ELSE Head(ss) \o Flatten(Tail(ss))

\* The tokens joined by single semicolons.
RECURSIVE Join(_)
Join(ts) ==
    IF ts = <<>> THEN <<>>
    ELSE IF Len(ts) = 1 THEN ts[1]
    ELSE ts[1] \o <<";">> \o Join(Tail(ts))

\* The bytes with every semicolon taken out.
RECURSIVE Unseparated(_)
Unseparated(b) ==
    IF b = <<>> THEN <<>>
    ELSE IF Head(b) = ";" THEN Unseparated(Tail(b))
    ELSE <<Head(b)>> \o Unseparated(Tail(b))

DigitChars == {"0", "1", "2", "3", "4", "5", "6", "7", "8", "9"}

\* The bytes up to the first semicolon.
RECURSIVE FirstField(_)
FirstField(b) ==
    IF b = <<>> \/ Head(b) = ";" THEN <<>>
    ELSE <<Head(b)>> \o FirstField(Tail(b))

Intro == <<"ESC", "[">>

Reset == <<"ESC", "[", "0", "m">>

\* An attribute of the style is active.
Active(s) ==
    \/ s.fg # None
    \/ s.bg # None
    \/ \E i \in 1..Len(EffectFields) : s[EffectFields[i]]

\* fmt has run to its end and returned Ok.
Rendered == pc = "done" /\ out.res = "Ok"

\* What lies between the introducer and the `m` in front of the content,
\* in an output of the shape ESC [ <params> m <content> ESC [ 0 m.
Params == SubSeq(out.buf, 3, Len(out.buf) - Len(styled.target.text) - 5)

\* The codes of the active effects, in the canonical order.
RECURSIVE EffectTokens(_, _)
EffectTokens(s, i) ==
    IF i > Len(EffectFields) THEN <<>>
    ELSE (IF s[EffectFields[i]] THEN <<Dec(i)>> ELSE <<>>)
             \o EffectTokens(s, i + 1)

\* The token of a color: one code for a named color, lead;2;R;G;B for a
\* true color.
ColorToken(c, named, lead) ==
    IF c.tag = "Ansi" THEN Dec(named)
    ELSE Join(<<Dec(lead), Dec(2), Dec(c.r), Dec(c.g), Dec(c.b)>>)

\* The tokens of the active attributes: fg, bg, then the effects.
Tokens(s) ==
    (IF s.fg # None THEN <<ColorToken(s.fg, AnsiCode[s.fg.name], 38)>>
     ELSE <<>>)
        \o (IF s.bg # None
            THEN <<ColorToken(s.bg, AnsiCode[s.bg.name] + 10, 48)>>
            ELSE <<>>)
        \o EffectTokens(s, 1)

TEST == <<"T", "E", "S", "T">>

\* ---------------------------------------------------------------------- C1

\* C1 (transparency): when fg is unset, bg is unset and all nine effects are
\* false, rendering writes the content's own text in one write and nothing
\* else: no introducer, no `m`, no separator, no reset.
C1_Transparency ==
    (Rendered /\ ~Active(styled.style)) =>
        /\ out.buf = styled.target.text
        /\ out.n = 1

\* A render of "TEST" under the default Style, which Style::new() and
\* every chain ending in remove_fg().remove_bg().remove_all_effects() give.
C1_Witness ==
    /\ Rendered
    /\ styled.style = new
    /\ styled.target.text = TEST
    /\ out.buf = TEST

\* ---------------------------------------------------------------------- C2

\* C2 (reset guarantee): a successful render ends with ESC[0m if and only if
\* an attribute is active; then the output is ESC [ <params> m <content>
\* ESC [ 0 m: the introducer first, the reset once and last, the content
\* unaltered in between, and <params> made of digits and semicolons only.
\* With no attribute active the output holds no escape byte.
C2_ResetGuarantee ==
    Rendered =>
        LET b == out.buf
            t == styled.target.text
        IN  /\ Active(styled.style) <=> IsSuffix(Reset, b)
            /\ Active(styled.style) =>
                  /\ Len(b) >= Len(t) + 8
                  /\ IsPrefix(Intro, b)
                  /\ b[Len(b) - Len(t) - 4] = "m"
                  /\ SubSeq(b, Len(b) - Len(t) - 3, Len(b) - 4) = t
                  /\ Count(b, "ESC") = 2
                  /\ Range(Params) \subseteq DigitChars \cup {";"}
            /\ ~Active(styled.style) => Count(b, "ESC") = 0

\* The render of tests::test_owocolorize and tests::test_it's colors:
\* bright_white().on_blue() over "TEST".
C2_Witness ==
    /\ Rendered
    /\ out.buf = <<"ESC", "[", "9", "7", ";", "4", "4", "m",
                    "T", "E", "S", "T", "ESC", "[", "0", "m">>

\* ---------------------------------------------------------------------- C3

\* C3 (separator before effects): <params> is the list of the active tokens
\* (fg, bg, then the effects) joined by single semicolons; in particular an
\* effect's code follows a `;` whenever a color token or an earlier effect
\* has been written, also when only bg is set: on_blue().bold() renders
\* "44;1".
C3_SeparatedParams ==
    (Rendered /\ Active(styled.style)) => Params = Join(Tokens(styled.style))

\* ---------------------------------------------------------------------- C4

\* C4 (canonical token order): the codes in <params> are those of the active
\* attributes, each once and none for an inactive one, in the order fg, bg,
\* bold(1), dimmed(2), italic(3), underline(4), blink(5), blink_fast(6),
\* reversed(7), hidden(8), strikethrough(9), whatever calls built the Style.
\* The separators between the codes are C3's matter: the codes are compared
\* with the semicolons taken out.
C4_CanonicalOrder ==
    (Rendered /\ Active(styled.style)) =>
        Unseparated(Params) = Unseparated(Flatten(Tokens(styled.style)))

\* tests::test_effects: effects(&[Strikethrough, Underline]) renders 4
\* before 9.
C4_Witness ==
    /\ Rendered
    /\ styled.style = effects(new, <<"Strikethrough", "Underline">>)
    /\ out.buf = <<"ESC", "[", "4", ";", "9", "m",
                    "T", "E", "S", "T", "ESC", "[", "0", "m">>

\* ---------------------------------------------------------------------- C5

\* C5 (color tokens and their separator): the fg token comes first after
\* ESC [ with nothing before it; the bg token follows it after exactly one
\* `;` when fg is set and comes first when fg is unset, so <params> never
\* begins with `;`. A named color is one numeric code (White fg 37, Black
\* bg 40), a true color is 38;2;R;G;B for fg and 48;2;R;G;B for bg.
C5_ColorTokens ==
    (Rendered /\ Active(styled.style)) =>
        LET s == styled.style
            white == <<"3", "7">>
            black == <<"4", "0">>
            rgb == <<"2", "5", "5", ";", "2", "5", "5", ";", "2", "5", "5">>
            fgtok == ColorToken(s.fg, AnsiCode[s.fg.name], 38)
            bgtok == ColorToken(s.bg, AnsiCode[s.bg.name] + 10, 48)
        IN  /\ Params # <<>> /\ Params[1] # ";"
            /\ s.fg # None => IsPrefix(fgtok, Params)
            /\ (s.fg # None /\ s.bg # None) =>
                  /\ IsPrefix(fgtok \o <<";">> \o bgtok, Params)
                  /\ bgtok[1] # ";"
            /\ (s.fg = None /\ s.bg # None) => IsPrefix(bgtok, Params)
            /\ s.fg = Ansi("White") => IsPrefix(white, Params)
            /\ (s.fg = None /\ s.bg = Ansi("Black")) => IsPrefix(black, Params)
            /\ s.fg = Rgb(255, 255, 255) =>
                  IsPrefix(<<"3", "8", ";", "2", ";">> \o rgb, Params)
            /\ (s.fg = None /\ s.bg = Rgb(255, 255, 255)) =>
                  IsPrefix(<<"4", "8", ";", "2", ";">> \o rgb, Params)
            /\ s.fg.tag = "Ansi" =>
                  Range(FirstField(Params)) \subseteq DigitChars

\* tests::test_color: color(White).on_color(Black) renders 37;40.
C5_Witness ==
    /\ Rendered
    /\ styled.style.fg = Ansi("White")
    /\ styled.style.bg = Ansi("Black")
    /\ out.buf = <<"ESC", "[", "3", "7", ";", "4", "0", "m",
                    "T", "E", "S", "T", "ESC", "[", "0", "m">>

\* ---------------------------------------------------------------------- C6

FgCodes == (30..39) \cup (90..97)

\* The number a sequence of digits writes, -1 if it is not one.
RECURSIVE ParseDec(_)
ParseDec(d) ==
    IF d = <<>> \/ Range(d) \ DigitChars # {} THEN -1
    ELSE IF Len(d) = 1
         THEN CHOOSE k \in 0..9 : Digit(k) = d[1]
         ELSE 10 * ParseDec(SubSeq(d, 1, Len(d) - 1))
                  + ParseDec(<<d[Len(d)]>>)

\* C6 (unset versus default): remove_fg() leaves fg unset whatever it held,
\* and a render then holds no foreground token (no escape byte at all if
\* nothing else is active); default_color() sets fg to the named color
\* Default, and a render then is never transparent: it opens with ESC[39 and
\* ends with the reset. The two Styles are never equal. The same for
\* remove_bg() and on_default_color() with the code 49.
C6_UnsetVersusDefault ==
    LET default == <<"Default", "default_color", "on_default_color">>
        s == styled.style
    IN  /\ remove_fg(style).fg = None
        /\ fg_method(style, default).fg = Ansi("Default")
        /\ remove_fg(style) # fg_method(style, default)
        /\ remove_bg(style).bg = None
        /\ bg_method(style, default).bg = Ansi("Default")
        /\ remove_bg(style) # bg_method(style, default)
        /\ (Rendered /\ s = remove_fg(s)) =>
              /\ ~Active(s) => Count(out.buf, "ESC") = 0
              /\ Active(s) => ParseDec(FirstField(Params)) \notin FgCodes
        /\ (Rendered /\ s = fg_method(s, default)) =>
              /\ IsPrefix(<<"ESC", "[", "3", "9">>, out.buf)
              /\ IsSuffix(Reset, out.buf)
        /\ (Rendered /\ s = remove_bg(s)) =>
              /\ ~Active(s) => Count(out.buf, "ESC") = 0
              /\ Active(s) =>
                    Params = Join((IF s.fg # None
                                   THEN <<ColorToken(s.fg, AnsiCode[s.fg.name],
                                                     38)>>
                                   ELSE <<>>) \o EffectTokens(s, 1))
        /\ (Rendered /\ s = bg_method(s, default)) =>
              /\ s.fg = None => IsPrefix(<<"ESC", "[", "4", "9">>, out.buf)
              /\ s.fg # None =>
                    IsPrefix(ColorToken(s.fg, AnsiCode[s.fg.name], 38)
                                 \o <<";", "4", "9">>, Params)
              /\ IsSuffix(Reset, out.buf)

\* default_color() alone renders the explicit code 39 and the reset.
C6_Witness ==
    /\ Rendered
    /\ styled.style = fg_method(new, <<"Default", "default_color",
                                       "on_default_color">>)
    /\ out.buf = <<"ESC", "[", "3", "9", "m",
                    "T", "E", "S", "T", "ESC", "[", "0", "m">>

\* ---------------------------------------------------------------------- C7

\* The color a caller's input names.
Named(x) ==
    IF "name" \in DOMAIN x THEN Ansi(x.name)
    ELSE Rgb(x.rgb[1], x.rgb[2], x.rgb[3])

\* Every foreground call on s, each with the color it is to set.
FgCalls(s) ==
    {<<fg_method(s, row), Ansi(row[1])>> : row \in RowSample}
        \cup {<<fg(s, C), Named(C)>> : C \in ColorInputs}
        \cup {<<color(s, c), Named(c)>> : c \in DynColorInputs}
        \cup {<<truecolor(s, t[1], t[2], t[3]), Rgb(t[1], t[2], t[3])>> :
                 t \in RgbSample}
        \cup {<<fg_rgb(s, t[1], t[2], t[3]), Rgb(t[1], t[2], t[3])>> :
                 t \in RgbSample}
        \cup {<<remove_fg(s), None>>}

\* Every background call on s, each with the color it is to set.
BgCalls(s) ==
    {<<bg_method(s, row), Ansi(row[1])>> : row \in RowSample}
        \cup {<<bg(s, C), Named(C)>> : C \in ColorInputs}
        \cup {<<on_color(s, c), Named(c)>> : c \in DynColorInputs}
        \cup {<<on_truecolor(s, t[1], t[2], t[3]), Rgb(t[1], t[2], t[3])>> :
                 t \in RgbSample}
        \cup {<<bg_rgb(s, t[1], t[2], t[3]), Rgb(t[1], t[2], t[3])>> :
                 t \in RgbSample}
        \cup {<<remove_bg(s), None>>}

\* C7 (color mutators touch only their own slot): on every Style the chain
\* reaches, every foreground call returns that Style with fg replaced by the
\* new value and nothing else changed, and every background call returns it
\* with bg replaced and nothing else changed.
C7_OwnSlotOnly ==
    pc = "build" =>
        /\ \A r \in FgCalls(style) : r[1] = [style EXCEPT !.fg = r[2]]
        /\ \A r \in BgCalls(style) : r[1] = [style EXCEPT !.bg = r[2]]

\* A Style whose fg was set to a true color with its bg and two effects
\* in place.
C7_Witness ==
    /\ pc = "build"
    /\ style.fg = Rgb(0, 42, 7)
    /\ style.bg = Ansi("White")
    /\ style.bold /\ style.hidden
    /\ ~style.italic

\* ---------------------------------------------------------------------- C8

\* The field of Style an Effect names.
FieldOf(e) == EffectFields[CHOOSE i \in 1..Len(Effect) : Effect[i] = e]

\* The fields of Style a call assigns.
Writes(m) ==
    CASE m.op \in {"fg_method", "fg", "remove_fg", "color", "fg_rgb",
                   "truecolor"} -> {"fg"}
      [] m.op \in {"bg_method", "bg", "remove_bg", "on_color", "bg_rgb",
                   "on_truecolor"} -> {"bg"}
      [] m.op = "style_method" -> {m.arg}
      [] m.op \in {"effect", "remove_effect"} -> {FieldOf(m.arg)}
      [] m.op \in {"effects", "remove_effects"} ->
            {FieldOf(e) : e \in Range(m.arg)}
      [] m.op = "remove_all_effects" -> Range(EffectFields)

\* C8 as stated (order independence of the builder): for any Style and any
\* two mutator calls, applying them in either order yields the same Style.
C8_OrderIndependent == pc = "paired" => style = twin

\* C8 as amended: two calls that assign no field in common yield the same
\* Style in either order; a field both assign holds the value of the call
\* made last (the second value is in effect, so the order does matter when
\* the two values differ).
C8_LastCallWins ==
    pc = "paired" =>
        /\ Writes(calls[1]) \cap Writes(calls[2]) = {} => style = twin
        /\ \A fld \in Writes(calls[2]) :
              style[fld] = Apply(calls[2], new)[fld]
        /\ \A fld \in Writes(calls[1]) :
              twin[fld] = Apply(calls[1], new)[fld]
        /\ \A fld \in DOMAIN style \ (Writes(calls[1]) \cup Writes(calls[2])) :
              style[fld] = twin[fld]

\* black() and on_truecolor(255, 255, 255) on a Style that held other
\* colors and strikethrough, made in both orders: the two chains agree.
C8_Witness ==
    /\ pc = "paired"
    /\ calls[1].op = "fg_method"
    /\ calls[2].op = "on_truecolor"
    /\ style = twin
    /\ style.fg = Ansi("Black")
    /\ style.bg = Rgb(255, 255, 255)
    /\ style.strikethrough

\* ---------------------------------------------------------------------- C9

\* The Style s with the fields of the effects in the set S made `to` and
\* every other field as it is.
WithEffects(s, S, to) ==
    LET flds == {EffectFields[i] : i \in {k \in 1..Len(Effect) : Effect[k] \in S}}
    IN  [fld \in DOMAIN s |-> IF fld \in flds THEN to ELSE s[fld]]

\* C9 (effect accumulation): on every Style the chain reaches and for every
\* list l (any order, duplicates, empty), effects(l) makes every effect of l
\* true and remove_effects(l) makes it false, both leaving every other
\* effect, fg and bg as they were, so that the result depends on the set of
\* l's entries only, not on their order; remove_all_effects() makes all
\* nine false and leaves fg and bg.
C9_EffectAccumulation ==
    pc = "build" =>
        /\ \A l \in EffectLists :
              /\ effects(style, l) = WithEffects(style, Range(l), TRUE)
              /\ remove_effects(style, l) = WithEffects(style, Range(l), FALSE)
        /\ remove_all_effects(style) = WithEffects(style, Range(Effect), FALSE)

\* italic() first, then effects(&[Strikethrough, Underline]): italic kept,
\* both added, over colors that stay.
C9_Witness ==
    /\ pc = "build"
    /\ style = [effects(new, <<"Strikethrough", "Underline">>)
                    EXCEPT !.italic = TRUE, !.fg = Ansi("Blue")]

\* --------------------------------------------------------------------- C10

\* The same value with a formatter that does not fail.
Sound(target) == [target EXCEPT !.fails = FALSE]

\* C10 (failure propagation): whatever write fails (the sink at any of its
\* write_str calls, or the content's own formatter), fmt returns Err and
\* writes nothing after it: what has been written is a prefix of what the
\* render into a sink that never fails of the same Style and content
\* writes, no write_str call follows the failed one, and the reset is not
\* written. fmt returns Err exactly when a write failed.
C10_FailurePropagation ==
    pc = "done" =>
        LET ref == fmt([styled EXCEPT !.target = Sound(@)],
                       Formatter(FALSE, 0))
            before == fmt([styled EXCEPT
                              !.target = [text |-> <<>>, fails |-> TRUE]],
                          Formatter(FALSE, 0))
            given == out.n + out.room
            failed ==
                \/ out.limited /\ given < ref.n
                \/ styled.target.fails
        IN  /\ IsPrefix(out.buf, ref.buf)
            /\ out.res = "Err" <=> failed
            /\ out.res = "Ok" => out.buf = ref.buf /\ out.n = ref.n
            /\ out.res = "Err" =>
                  /\ ~(Active(styled.style) /\ IsSuffix(Reset, out.buf))
                  /\ out.limited => out.n <= given
                  /\ styled.target.fails =>
                        /\ IsPrefix(out.buf, before.buf)
                        /\ out.n <= before.n
                  /\ (out.limited /\ given < ref.n
                         /\ ~(styled.target.fails /\ given >= before.n)) =>
                        out.n = given

\* The content's formatter fails under white().on_black().bold(): the
\* escape sequence is open, no content and no reset were written.
C10_Witness ==
    /\ pc = "done"
    /\ styled.target.fails
    /\ out.res = "Err"
    /\ out.buf = <<"ESC", "[", "3", "7", ";", "4", "0", ";", "1", "m">>

====
